---- MODULE Spec2Model ----
(***************************************************************************)
(* Model of the oxy library: the Result type with its Try adapter          *)
(* (src/result.ts), the JSON-RPC envelope patterns (src/json_rpc.ts) and   *)
(* the Option type with OptionOf (src/option.ts).                          *)
(*                                                                         *)
(* A JavaScript value is a record with one field per property the code     *)
(* (through its ts-pattern patterns) ever looks at.  A scalar property is  *)
(* the name of its runtime type ("boolean", "number", "string", ...), or   *)
(* "absent" when the key is missing; a literal-valued property is that     *)
(* literal ("true", "false", "2.0"); a property holding a value the code   *)
(* passes on or looks into is <<>> (key missing) or <<v>>.                 *)
(***************************************************************************)
EXTENDS Naturals, Sequences, FiniteSets

----------------------------------------------------------------------------
(* Bounds *)

\* The clock read by `new Date()` runs from 1 to MaxClock; values built
\* before the call carry timestamp 0.
MaxClock == 2

----------------------------------------------------------------------------
(* Values *)

\* An object with no property the code looks at.
Blank ==
  [ typ |-> "object", lit |-> "", len |-> 0,
    ok |-> "absent", redirected |-> "absent", status |-> "absent",
    statusText |-> "absent", json |-> <<>>,
    isOk |-> "absent", isError |-> "absent", data |-> <<>>,
    timestamp |-> <<>>, map |-> "absent",
    isSome |-> "absent", isNone |-> "absent",
    id |-> "absent", jsonrpc |-> "absent", result |-> <<>>, error |-> <<>>,
    message |-> "absent", req_uuid |-> "absent", detail |-> <<>> ]

\* A primitive of runtime type t and content l.
Prim(t, l) == [Blank EXCEPT !.typ = t, !.lit = l]

\* An array of n elements.
Arr(n) == [Blank EXCEPT !.typ = "array", !.len = n]

\* What one invocation of a caller-supplied function does: "return" v,
\* "throw" v, or return a promise that will "fulfil" with v or "reject" with v.
Outcome(k, v) == [kind |-> k, val |-> v]

\* ts-pattern's isObject: typeof value === 'object' && value !== null.
IsObject(v) == v.typ \in {"object", "array"}

\* The TypeError the runtime throws for calling something that is no function.
TypeErrorVal == [Blank EXCEPT !.lit = "TypeError", !.message = "string"]

----------------------------------------------------------------------------
(* src/result.ts: constructors and patterns *)

\* Ok(thing): {isOk: true, data: thing, isError: false, map}.
Ok(thing) ==
  [Blank EXCEPT !.isOk = "true", !.data = <<thing>>, !.isError = "false",
                !.map = "Ok.map"]

\* Err(errorData) built when the clock shows t.
ErrAt(errorData, t) ==
  [Blank EXCEPT !.isOk = "false", !.data = <<errorData>>, !.isError = "true",
                !.timestamp = <<t>>, !.map = "Err.map"]

\* The pattern ERROR: {isOk: false, isError: true, data: P.select()}.
\* An object pattern needs every key of the pattern to be in the value.
ERROR(v) ==
  IsObject(v) /\ v.isOk = "false" /\ v.isError = "true" /\ v.data # <<>>

\* The pattern OK: {isOk: true, isError: false, data: P.select()}.
OK(v) ==
  IsObject(v) /\ v.isOk = "true" /\ v.isError = "false" /\ v.data # <<>>

\* {ok: P.boolean, redirected: P.boolean, status: P.number, statusText: P.string}.
FetchResponsePattern(v) ==
  /\ IsObject(v)
  /\ v.ok = "boolean"
  /\ v.redirected = "boolean"
  /\ v.status = "number"
  /\ v.statusText = "string"

----------------------------------------------------------------------------
(* src/json_rpc.ts: envelope patterns *)

\* id: P.union(P.string, P.number, P.nullish): the key must be present.
IdPattern(v) == v.id \in {"string", "number", "null", "undefined"}

\* jsonrpc: P.optional("2.0"): the key is missing, undefined, or "2.0".
JsonRpcVersionPattern(v) == v.jsonrpc \in {"absent", "undefined", "2.0"}

\* {id, jsonrpc, result: {data: P.any}}.
JsonRpcSuccessPattern(v) ==
  /\ IsObject(v)
  /\ IdPattern(v)
  /\ JsonRpcVersionPattern(v)
  /\ v.result # <<>>
  /\ IsObject(v.result[1])
  /\ v.result[1].data # <<>>

\* {id, jsonrpc, error: {message: P.string, data: {req_uuid: P.string, detail: P.any}}}.
JsonRpcErrorPattern(v) ==
  /\ IsObject(v)
  /\ IdPattern(v)
  /\ JsonRpcVersionPattern(v)
  /\ v.error # <<>>
  /\ IsObject(v.error[1])
  /\ v.error[1].message = "string"
  /\ v.error[1].data # <<>>
  /\ IsObject(v.error[1].data[1])
  /\ v.error[1].data[1].req_uuid = "string"
  /\ v.error[1].data[1].detail # <<>>

----------------------------------------------------------------------------
(* src/option.ts: constructors and patterns *)

\* some(data): {isSome: true, data, isNone: false}.
some(data) ==
  [Blank EXCEPT !.isSome = "true", !.data = <<data>>, !.isNone = "false"]

\* The shared empty option {isSome: false, isNone: true}.
NOTHING == [Blank EXCEPT !.isSome = "false", !.isNone = "true"]

\* isMatching(NOTHING, data).
MatchesNOTHING(data) ==
  IsObject(data) /\ data.isSome = "false" /\ data.isNone = "true"

\* isMatching(SOMETHING, data): {isSome: true, isNone: false, data: P.select()}.
SOMETHING(data) ==
  /\ IsObject(data)
  /\ data.isSome = "true"
  /\ data.isNone = "false"
  /\ data.data # <<>>

\* Mutant of optionOfThing: a value that is a present option already is
\* wrapped like any other.
optionOfThingRewraps(data) ==
  IF \/ data.typ \in {"null", "undefined"}
     \/ data.typ = "array" /\ data.len = 0
     \/ MatchesNOTHING(data)
     \/ data.typ = "string" /\ data.lit = ""
    THEN NOTHING
    ELSE some(data)

\* Mutant of optionOfThing: emptiness tested by falsiness (!data), which takes
\* 0 and false for empty as well.
optionOfThingFalsy(data) ==
  LET thingIsFalsy ==
        \/ data.typ \in {"null", "undefined"}
        \/ data.typ = "string" /\ data.lit = ""
        \/ data.typ = "number" /\ data.lit = "0"
        \/ data.typ = "boolean" /\ data.lit = "false"
      thingIsEmptyArray == data.typ = "array" /\ data.len = 0
  IN  IF thingIsFalsy \/ thingIsEmptyArray \/ MatchesNOTHING(data)
        THEN NOTHING
        ELSE IF SOMETHING(data) THEN data ELSE some(data)

optionOfThing(data) ==
  LET thingIsNullish == data.typ \in {"null", "undefined"}
      thingIsEmptyArray == data.typ = "array" /\ data.len = 0
      thingIsEmptyString == data.typ = "string" /\ data.lit = ""
      thingIsNothing == MatchesNOTHING(data)
  IN  IF thingIsNullish \/ thingIsEmptyArray \/ thingIsNothing
         \/ thingIsEmptyString
        THEN NOTHING
        ELSE IF SOMETHING(data) THEN data ELSE some(data)

----------------------------------------------------------------------------
(* Input values *)

Num == Prim("number", "42")
Str == Prim("string", "oops")
Null == Prim("null", "null")
Undef == Prim("undefined", "undefined")
Plain == [Blank EXCEPT !.lit = "plain"]

\* Results built before the call.
OkV == Ok(Num)
ErrV == ErrAt(Str, 0)

\* {message: "x", data: {req_uuid: "u1", detail: {}}}
ErrorDetail == [Blank EXCEPT !.req_uuid = "string", !.detail = <<Blank>>]
ErrorBody == [Blank EXCEPT !.message = "string", !.data = <<ErrorDetail>>]

\* {jsonrpc: "2.0", id: "1", error: {...}}
RpcError == [Blank EXCEPT !.id = "string", !.jsonrpc = "2.0",
                          !.error = <<ErrorBody>>]
\* the same envelope carrying the Err tags as well
RpcErrorTagged == [RpcError EXCEPT !.isOk = "false", !.isError = "true",
                                   !.data = <<Str>>]
\* {jsonrpc: "2.0", id: 1, result: {data: 42}}
RpcSuccess == [Blank EXCEPT !.id = "number", !.jsonrpc = "2.0",
                            !.result = <<[Blank EXCEPT !.data = <<Num>>]>>]
\* an envelope with both a result and an error
RpcBoth == [RpcSuccess EXCEPT !.error = <<ErrorBody>>]
\* near misses of the error envelope
RpcErrorNoId == [RpcError EXCEPT !.id = "absent"]
RpcErrorV1 == [RpcError EXCEPT !.jsonrpc = "1.0"]
RpcErrorNoUuid ==
  [RpcError EXCEPT !.error =
     <<[ErrorBody EXCEPT !.data = <<[ErrorDetail EXCEPT !.req_uuid = "absent"]>>]>>]
\* the envelope without the optional version
RpcErrorNoVersion == [RpcError EXCEPT !.jsonrpc = "absent", !.id = "null"]

\* A fetch-like response whose json() behaves as outcome o.
Response(o) ==
  [Blank EXCEPT !.ok = "boolean", !.redirected = "boolean",
                !.status = "number", !.statusText = "string", !.json = <<o>>]
\* A response object with no json method.
ResponseNoJson ==
  [Blank EXCEPT !.ok = "boolean", !.redirected = "boolean",
                !.status = "number", !.statusText = "string"]
\* Not a response: statusText is missing.
HalfResponse == [Response(Outcome("fulfil", RpcSuccess)) EXCEPT !.statusText = "absent"]
\* An Ok-tagged value that has the response shape too.
OkResponse ==
  [Response(Outcome("fulfil", RpcSuccess)) EXCEPT
     !.isOk = "true", !.isError = "false", !.data = <<Num>>]

Bodies == {RpcSuccess, RpcError, RpcErrorTagged, RpcBoth, Plain, RpcErrorNoId}

JsonOutcomes ==
  {Outcome("fulfil", b) : b \in Bodies}
    \cup {Outcome("return", RpcError), Outcome("return", RpcSuccess),
          Outcome("reject", Str), Outcome("throw", Str)}

Responses ==
  {Response(o) : o \in JsonOutcomes} \cup {ResponseNoJson, HalfResponse, OkResponse}

\* The values a happyPath returns, throws, fulfils or rejects with.
Values ==
  {Num, Str, Null, Undef, Plain, OkV, ErrV, RpcError, RpcErrorTagged,
   RpcSuccess, RpcBoth, RpcErrorNoId, RpcErrorV1, RpcErrorNoUuid,
   RpcErrorNoVersion} \cup Responses

\* {}: an object with no keys.
EmptyObject == Blank
\* {isSome: true, data: 42}: tagged present, with data, without isNone.
LooseSome == [Blank EXCEPT !.isSome = "true", !.data = <<Num>>]

\* An empty array that carries the properties of a present option.
EmptyArraySome ==
  [Arr(0) EXCEPT !.isSome = "true", !.isNone = "false", !.data = <<Num>>]

\* The values a someFunction of OptionOf produces.
OptionValues ==
  {Num, Str, Null, Undef, Plain, Prim("string", ""), Prim("number", "0"),
   Prim("boolean", "false"), Arr(0), Arr(2), NOTHING, some(Num), some(Null),
   [Blank EXCEPT !.isSome = "true", !.isNone = "false"],
   [Blank EXCEPT !.isSome = "false"], OkV, EmptyObject, LooseSome,
   EmptyArraySome}

Kinds == {"return", "throw", "fulfil", "reject"}

\* The promise object itself, when a function's return value is used as a value.
PromiseObj == [Blank EXCEPT !.lit = "Promise"]

\* A function is given by what its first and its second invocation do. The
\* second invocation is looked at only when the first did not hand back a
\* promise; it repeats the first or does one of a few other things.
Functions(vals) ==
  LET firsts == {Outcome(k, v) : k \in Kinds, v \in vals}
      others == {Outcome("return", Num), Outcome("throw", Str),
                 Outcome("fulfil", Num)}
  IN  {<<o, o>> : o \in firsts}
        \cup {<<o, p>> : o \in {f \in firsts : f.kind \in {"return", "throw"}},
                          p \in others}

\* Stands for the function the call does not take.
NoFunction == <<Outcome("none", Blank), Outcome("none", Blank)>>

\* sadPath: not supplied, returns a fixed value, or throws.
SadPaths ==
  {Outcome("none", Blank), Outcome("return", Str),
   Outcome("return", ErrAt(Prim("string", "custom"), 0)),
   Outcome("throw", Prim("string", "sad"))}

----------------------------------------------------------------------------
(* State *)

VARIABLES
  api,           \* which function the caller calls: "Try" or "OptionOf"
  happyPath,     \* Try's first argument: <<first invocation, second invocation>>
  sadPath,       \* Try's second argument
  someFunction,  \* OptionOf's argument
  now,           \* the clock `new Date()` reads
  pc,            \* where the call stands
  promise,       \* the promise the call returned: its state and value
  calls,         \* invocations of happyPath / someFunction so far
  sadArgs,       \* the arguments sadPath was invoked with, in order
  tierB,         \* whether the synchronous fallback (the outer catch) ran
  earlier,       \* the promise of the caller's previous call, if it made one
  log,           \* what has happened in the call so far, in order
  thing,         \* the argument of Ok(..) / Err(..) when the caller builds a Result
  fn,            \* the function the caller passes to map
  self,          \* the Result the caller built: <<>> before, <<r>> after
  mapped,        \* how self.map(fn) ended: <<>> before, <<outcome>> after
  fnArgs         \* the arguments fn was invoked with, in order

vars == <<api, happyPath, sadPath, someFunction, now, pc, promise, calls,
          sadArgs, tierB, earlier, log, thing, fn, self, mapped, fnArgs>>

inputs == <<api, happyPath, sadPath, someFunction, thing, fn>>

\* The state of a caller that builds a Result and maps it.
mapVars == <<self, mapped, fnArgs>>

Pending == [state |-> "pending", value |-> <<>>]
Fulfilled(v) == [state |-> "fulfilled", value |-> <<v>>]
Rejected(e) == [state |-> "rejected", value |-> <<e>>]

\* Err(errorData): timestamp: new Date().
Err(errorData) == ErrAt(errorData, now)

\* How the evaluation of an expression ends: with a value or by throwing,
\* having invoked sadPath with the arguments in sad.
Value(v) == [kind |-> "value", val |-> v, sad |-> <<>>]

\* sadPath(x)
CallSadPath(x) ==
  [kind |-> IF sadPath.kind = "throw" THEN "throw" ELSE "value",
   val |-> sadPath.val, sad |-> <<x>>]

\* sadPath ? sadPath(x) : Err(x)
SadPathOrErr(x) ==
  IF sadPath.kind # "none" THEN CallSadPath(x) ELSE Value(Err(x))

\* The events a classification chain leaves in the log: the match itself,
\* the invocation of sadPath if there was one, and how it settled the promise.
ChainEvents(name, c, settled) ==
  <<name>> \o (IF c.sad # <<>> THEN <<"sadPath">> ELSE <<>>) \o settled

\* The event of a function's invocation ending.
EndOf(invocation) ==
  IF invocation.kind = "return" THEN "returned"
  ELSE IF invocation.kind = "throw" THEN "threw"
  ELSE "promise"

----------------------------------------------------------------------------
(* Try: the classification chains *)

\* Mutant of ClassifyBody: the error envelope is wrapped by Err without
\* sadPath being asked, as the .catch continuation does.
ClassifyBodyNoSadPath(json) ==
  IF JsonRpcSuccessPattern(json) THEN Value(Ok(json))
  ELSE IF JsonRpcErrorPattern(json) THEN Value(Err(json))
  ELSE Value(Ok(json))

\* match(json) of the fetch branch.
ClassifyBody(json) ==
  IF JsonRpcSuccessPattern(json) THEN Value(Ok(json))
  ELSE IF JsonRpcErrorPattern(json) THEN SadPathOrErr(json)
  ELSE Value(Ok(json))

\* match(valueWeWant) of the .then continuation, below the fetch branch.
ClassifyFulfilment(valueWeWant) ==
  IF OK(valueWeWant) THEN Value(valueWeWant) ELSE Value(Ok(valueWeWant))

\* Mutant of ClassifyRejection: the chain of the synchronous fallback, which
\* has no envelope case and tests ERROR first.
ClassifyRejectionLikeThrow(error) ==
  IF ERROR(error) THEN Value(error) ELSE SadPathOrErr(error)

\* match(error) of the .catch continuation.
ClassifyRejection(error) ==
  IF JsonRpcErrorPattern(error) THEN Value(Err(error))
  ELSE IF ERROR(error) THEN Value(error)
  ELSE SadPathOrErr(error)

\* A fallback chain that hands a returned Err-tagged value to sadPath.
ClassifyReturnAsksSadPath(valueWeWant) ==
  IF OK(valueWeWant) THEN Value(valueWeWant)
  ELSE IF ERROR(valueWeWant) THEN SadPathOrErr(valueWeWant)
  ELSE Value(Ok(valueWeWant))

\* match(valueWeWant) of the synchronous fallback.
ClassifyReturn(valueWeWant) ==
  IF OK(valueWeWant) THEN Value(valueWeWant)
  ELSE IF ERROR(valueWeWant) THEN Value(valueWeWant)
  ELSE Value(Ok(valueWeWant))

\* Mutant of ClassifyThrow: the error envelope is matched first and wrapped by
\* Err, as the .catch continuation does.
ClassifyThrowEnvelopeFirst(error) ==
  IF JsonRpcErrorPattern(error) THEN Value(Err(error))
  ELSE IF ERROR(error) THEN Value(error)
  ELSE SadPathOrErr(error)

\* A fallback catch that classifies what was thrown with the chain of the
\* return path.
ClassifyThrowLikeReturn(error) == ClassifyReturn(error)

\* match(error) of the synchronous fallback's catch.
ClassifyThrow(error) ==
  IF ERROR(error) THEN Value(error) ELSE SadPathOrErr(error)

\* The synchronous fallback: happyPath is invoked again.
TierB ==
  LET again == happyPath[2]
  IN  IF again.kind = "return" THEN ClassifyReturn(again.val)
      ELSE IF again.kind = "throw" THEN ClassifyThrow(again.val)
      ELSE ClassifyReturn(PromiseObj)

----------------------------------------------------------------------------
(* Try: the steps *)

\* A call that invokes happyPath once to see what it hands back and, finding a
\* promise, invokes it again to attach the continuations.
TryProbesFirst ==
  /\ pc = "start" /\ api = "Try"
  /\ IF happyPath[1].kind \in {"fulfil", "reject"}
       THEN /\ pc' = "pending"
            /\ calls' = calls + 2
            /\ log' = log \o <<"happyPath", "promise", "happyPath", "promise">>
            /\ UNCHANGED <<promise, sadArgs, tierB>>
       ELSE LET c == TierB
            IN  /\ pc' = "done"
                /\ calls' = calls + 2
                /\ tierB' = TRUE
                /\ sadArgs' = sadArgs \o c.sad
                /\ promise' = IF c.kind = "value" THEN Fulfilled(c.val)
                                                  ELSE Rejected(c.val)
                /\ log' = log \o <<"happyPath", EndOf(happyPath[1]),
                                    "happyPath", EndOf(happyPath[2])>>
                              \o ChainEvents("match", c,
                                     IF c.kind = "value" THEN <<"fulfilled">>
                                                         ELSE <<"rejected">>)
  /\ UNCHANGED <<inputs, mapVars, now, earlier>>

\* The call: the executor of `new Promise` runs. happyPath() is invoked; when
\* it hands back a promise the continuations are attached, and otherwise
\* (happyPath threw, or .then is no function of what it returned) the outer
\* catch runs the fallback at once. An exception leaving the executor rejects
\* the promise.
Try ==
  /\ pc = "start" /\ api = "Try"
  /\ IF happyPath[1].kind \in {"fulfil", "reject"}
       THEN /\ pc' = "pending"
            /\ calls' = calls + 1
            /\ log' = log \o <<"happyPath", "promise">>
            /\ UNCHANGED <<promise, sadArgs, tierB>>
       ELSE LET c == TierB
            IN  /\ pc' = "done"
                /\ calls' = calls + 2
                /\ tierB' = TRUE
                /\ sadArgs' = sadArgs \o c.sad
                /\ promise' = IF c.kind = "value" THEN Fulfilled(c.val)
                                                  ELSE Rejected(c.val)
                /\ log' = log \o <<"happyPath", EndOf(happyPath[1]),
                                    "happyPath", EndOf(happyPath[2])>>
                              \o ChainEvents("match", c,
                                     IF c.kind = "value" THEN <<"fulfilled">>
                                                         ELSE <<"rejected">>)
  /\ UNCHANGED <<inputs, mapVars, now, earlier>>

\* The promise happyPath (or someFunction) returned settles.
Settle ==
  /\ pc = "pending"
  /\ pc' = "settled"
  /\ log' = log \o <<"settled">>
  /\ UNCHANGED <<inputs, mapVars, now, promise, calls, sadArgs, tierB, earlier>>

\* A .then continuation that tests the pattern OK before the response shape.
OnFulfilledOkFirst ==
  /\ pc = "settled" /\ api = "Try" /\ happyPath[1].kind = "fulfil"
  /\ LET valueWeWant == happyPath[1].val
     IN  IF OK(valueWeWant)
           THEN /\ pc' = "done"
                /\ promise' = Fulfilled(valueWeWant)
                /\ log' = log \o <<"match", "fulfilled">>
         ELSE IF FetchResponsePattern(valueWeWant)
           THEN IF valueWeWant.json = <<>>
                  THEN /\ pc' = "done"
                       /\ promise' = Rejected(TypeErrorVal)
                       /\ log' = log \o <<"match", "rejected">>
                ELSE IF valueWeWant.json[1].kind = "throw"
                  THEN /\ pc' = "done"
                       /\ promise' = Rejected(valueWeWant.json[1].val)
                       /\ log' = log \o <<"match", "json", "rejected">>
                ELSE /\ pc' = "body"
                     /\ log' = log \o <<"match", "json">>
                     /\ UNCHANGED promise
           ELSE /\ pc' = "done"
                /\ promise' = Fulfilled(Ok(valueWeWant))
                /\ log' = log \o <<"match", "fulfilled">>
  /\ UNCHANGED <<inputs, mapVars, now, calls, sadArgs, tierB, earlier>>

\* A .then continuation whose fetch handler does not await res.json(): it
\* classifies the body in the same step as it asks for it.
OnFulfilledNoAwait ==
  /\ pc = "settled" /\ api = "Try" /\ happyPath[1].kind = "fulfil"
  /\ LET valueWeWant == happyPath[1].val
         c == ClassifyBody(valueWeWant.json[1].val)
     IN  IF FetchResponsePattern(valueWeWant) /\ valueWeWant.json # <<>>
           THEN /\ sadArgs' = sadArgs \o c.sad
                /\ promise' = IF c.kind = "value" THEN Fulfilled(c.val)
                                                  ELSE Rejected(c.val)
                /\ log' = log \o <<"match", "json">>
                              \o ChainEvents("matchBody", c,
                                     IF c.kind = "value" THEN <<"fulfilled">>
                                                         ELSE <<"rejected">>)
           ELSE /\ promise' = Fulfilled(ClassifyFulfilment(valueWeWant).val)
                /\ log' = log \o <<"match", "fulfilled">>
                /\ UNCHANGED sadArgs
  /\ pc' = "done"
  /\ UNCHANGED <<inputs, mapVars, now, calls, tierB, earlier>>

\* The .then continuation. A fetch-like value starts the async handler, whose
\* promise the call's promise is resolved with: the handler calls res.json()
\* and awaits it; if that call throws (or json is no function) the handler's
\* promise rejects.
OnFulfilled ==
  /\ pc = "settled" /\ api = "Try" /\ happyPath[1].kind = "fulfil"
  /\ LET valueWeWant == happyPath[1].val
     IN  IF FetchResponsePattern(valueWeWant)
           THEN IF valueWeWant.json = <<>>
                  THEN /\ pc' = "done"
                       /\ promise' = Rejected(TypeErrorVal)
                       /\ log' = log \o <<"match", "rejected">>
                ELSE IF valueWeWant.json[1].kind = "throw"
                  THEN /\ pc' = "done"
                       /\ promise' = Rejected(valueWeWant.json[1].val)
                       /\ log' = log \o <<"match", "json", "rejected">>
                ELSE /\ pc' = "body"
                     /\ log' = log \o <<"match", "json">>
                     /\ UNCHANGED promise
           ELSE /\ pc' = "done"
                /\ promise' = Fulfilled(ClassifyFulfilment(valueWeWant).val)
                /\ log' = log \o <<"match", "fulfilled">>
  /\ UNCHANGED <<inputs, mapVars, now, calls, sadArgs, tierB, earlier>>

\* What `await res.json()` waits for settles: the body is there, or the
\* extraction has failed.
SettleBody ==
  /\ pc = "body"
  /\ pc' = "bodySettled"
  /\ log' = log \o <<"jsonSettled">>
  /\ UNCHANGED <<inputs, mapVars, now, promise, calls, sadArgs, tierB, earlier>>

\* The async handler resumes after `await res.json()`.
OnBody ==
  /\ pc = "bodySettled"
  /\ LET extraction == happyPath[1].val.json[1]
         c == ClassifyBody(extraction.val)
     IN  IF extraction.kind = "reject"
           THEN /\ promise' = Rejected(extraction.val)
                /\ log' = log \o <<"rejected">>
                /\ UNCHANGED sadArgs
           ELSE /\ sadArgs' = sadArgs \o c.sad
                /\ promise' = IF c.kind = "value" THEN Fulfilled(c.val)
                                                  ELSE Rejected(c.val)
                /\ log' = log \o ChainEvents("matchBody", c,
                                     IF c.kind = "value" THEN <<"fulfilled">>
                                                         ELSE <<"rejected">>)
  /\ pc' = "done"
  /\ UNCHANGED <<inputs, mapVars, now, calls, tierB, earlier>>

\* The .catch continuation. If sadPath throws in it, resolve is never called.
OnRejected ==
  /\ pc = "settled" /\ api = "Try" /\ happyPath[1].kind = "reject"
  /\ LET c == ClassifyRejection(happyPath[1].val)
     IN  /\ sadArgs' = sadArgs \o c.sad
         /\ promise' = IF c.kind = "value" THEN Fulfilled(c.val) ELSE promise
         /\ log' = log \o ChainEvents("match", c,
                              IF c.kind = "value" THEN <<"fulfilled">>
                                                  ELSE <<>>)
  /\ pc' = "done"
  /\ UNCHANGED <<inputs, mapVars, now, calls, tierB, earlier>>

----------------------------------------------------------------------------
(* OptionOf: the steps *)

\* The call: someFunction() is invoked; a promise gets the continuations,
\* anything else lands in the outer catch, which invokes someFunction again.
OptionOf ==
  /\ pc = "start" /\ api = "OptionOf"
  /\ IF someFunction[1].kind \in {"fulfil", "reject"}
       THEN /\ pc' = "pending"
            /\ calls' = calls + 1
            /\ log' = log \o <<"someFunction", "promise">>
            /\ UNCHANGED <<promise, tierB>>
       ELSE LET again == someFunction[2]
            IN  /\ pc' = "done"
                /\ calls' = calls + 2
                /\ tierB' = TRUE
                /\ log' = log \o <<"someFunction", EndOf(someFunction[1]),
                                    "someFunction", EndOf(again)>>
                              \o (IF again.kind = "throw" THEN <<>>
                                     ELSE <<"optionOfThing">>)
                              \o <<"fulfilled">>
                /\ promise' =
                     IF again.kind = "return"
                       THEN Fulfilled(optionOfThing(again.val))
                     ELSE IF again.kind = "throw" THEN Fulfilled(NOTHING)
                     ELSE Fulfilled(optionOfThing(PromiseObj))
  /\ UNCHANGED <<inputs, mapVars, now, sadArgs, earlier>>

\* .then((res) => resolve(optionOfThing(res)))
OptionOnFulfilled ==
  /\ pc = "settled" /\ api = "OptionOf" /\ someFunction[1].kind = "fulfil"
  /\ promise' = Fulfilled(optionOfThing(someFunction[1].val))
  /\ pc' = "done"
  /\ log' = log \o <<"optionOfThing", "fulfilled">>
  /\ UNCHANGED <<inputs, mapVars, now, calls, sadArgs, tierB, earlier>>

\* Mutant of OptionOnRejected: the rejection is handed on to the caller.
OptionOnRejectedPropagates ==
  /\ pc = "settled" /\ api = "OptionOf" /\ someFunction[1].kind = "reject"
  /\ promise' = Rejected(someFunction[1].val)
  /\ pc' = "done"
  /\ log' = log \o <<"rejected">>
  /\ UNCHANGED <<inputs, mapVars, now, calls, sadArgs, tierB, earlier>>

\* .catch(() => resolve(NOTHING))
OptionOnRejected ==
  /\ pc = "settled" /\ api = "OptionOf" /\ someFunction[1].kind = "reject"
  /\ promise' = Fulfilled(NOTHING)
  /\ pc' = "done"
  /\ log' = log \o <<"fulfilled">>
  /\ UNCHANGED <<inputs, mapVars, now, calls, sadArgs, tierB, earlier>>

----------------------------------------------------------------------------
(* Ok(..).map and Err(..).map *)

\* The values the caller wraps with Ok or Err.
Things == {Num, Str, Null, Plain, OkV, ErrV}

\* The functions passed to map: the identity, two that return a fixed value
\* whatever they are given, and one that throws.
MapFunctions ==
  {Outcome("identity", Blank), Outcome("return", Str), Outcome("return", OkV),
   Outcome("throw", Str)}

\* Stands for the function a call of Try or OptionOf does not take.
NoMapFunction == Outcome("none", Blank)

\* f(x): what invoking f on x does.
Apply(f, x) == IF f.kind = "identity" THEN Outcome("return", x) ELSE f

\* A map that never invokes fn and hands back the receiver.
OkMapKeeps(this, f) ==
  [ out |-> Outcome("return", this), fresh |-> FALSE, args |-> <<>>,
    this |-> this ]

\* The map of an Ok: const newData = fn(this.data); return Ok(newData).
\* Gives how the call ends, whether the object returned was created by the
\* call, what fn was invoked with, and `this` afterwards.
OkMap(this, f) ==
  LET newData == Apply(f, this.data[1])
  IN  [ out |-> IF newData.kind = "throw" THEN newData
                ELSE Outcome("return", Ok(newData.val)),
        fresh |-> newData.kind # "throw",
        args |-> <<this.data[1]>>,
        this |-> this ]

\* A map that wraps the error data again: return Err(this.data).
ErrMapRebuilds(this, f) ==
  [ out |-> Outcome("return", Err(this.data[1])), fresh |-> TRUE,
    args |-> <<>>, this |-> this ]

\* The map of an Err: return this.
ErrMap(this, f) ==
  [ out |-> Outcome("return", this), fresh |-> FALSE, args |-> <<>>,
    this |-> this ]

\* The caller builds Ok(thing) or Err(thing).
Construct ==
  /\ pc = "start" /\ api \in {"Ok", "Err"}
  /\ self' = <<IF api = "Ok" THEN Ok(thing) ELSE Err(thing)>>
  /\ pc' = "built"
  /\ log' = log \o <<api>>
  /\ UNCHANGED <<inputs, now, promise, calls, sadArgs, tierB, earlier, mapped,
                 fnArgs>>

\* The caller calls self.map(fn).
Map ==
  /\ pc = "built"
  /\ LET m == IF self[1].map = "Ok.map" THEN OkMap(self[1], fn)
                                        ELSE ErrMap(self[1], fn)
     IN  /\ mapped' = <<[out |-> m.out, fresh |-> m.fresh]>>
         /\ fnArgs' = fnArgs \o m.args
         /\ self' = <<m.this>>
         /\ log' = log \o <<"map">>
                       \o (IF m.args # <<>> THEN <<"fn">> ELSE <<>>)
  /\ pc' = "done"
  /\ UNCHANGED <<inputs, now, promise, calls, sadArgs, tierB, earlier>>

----------------------------------------------------------------------------
(* The environment *)

\* Time passes while the call is under way.
Tick ==
  /\ pc # "done" /\ now < MaxClock
  /\ now' = now + 1
  /\ UNCHANGED <<inputs, mapVars, pc, promise, calls, sadArgs, tierB, earlier,
                 log>>

\* The caller, having called Try with a happyPath that returns v (or throws e)
\* at once, calls Try again with the same sadPath and the happyPath that
\* returns Promise.resolve(v) (or Promise.reject(e)).
TryAsync ==
  /\ pc = "done" /\ api = "Try" /\ earlier = <<>>
  /\ happyPath[1].kind \in {"return", "throw"}
  /\ happyPath[1] = happyPath[2]
  /\ LET twin == Outcome(IF happyPath[1].kind = "return" THEN "fulfil"
                                                         ELSE "reject",
                         happyPath[1].val)
     IN  happyPath' = <<twin, twin>>
  /\ earlier' = <<promise>>
  /\ pc' = "start"
  /\ promise' = Pending
  /\ calls' = 0
  /\ sadArgs' = <<>>
  /\ tierB' = FALSE
  /\ log' = <<>>
  /\ UNCHANGED <<api, sadPath, someFunction, thing, fn, mapVars, now>>

----------------------------------------------------------------------------
(* Specifications *)

Fresh ==
  /\ now = 1
  /\ pc = "start"
  /\ promise = Pending
  /\ calls = 0
  /\ sadArgs = <<>>
  /\ tierB = FALSE
  /\ earlier = <<>>
  /\ log = <<>>
  /\ self = <<>>
  /\ mapped = <<>>
  /\ fnArgs = <<>>

InitTry ==
  /\ api = "Try"
  /\ happyPath \in Functions(Values)
  /\ sadPath \in SadPaths
  /\ someFunction = NoFunction
  /\ thing = Blank
  /\ fn = NoMapFunction

InitOptionOf ==
  /\ api = "OptionOf"
  /\ someFunction \in Functions(OptionValues)
  /\ happyPath = NoFunction
  /\ sadPath = Outcome("none", Blank)
  /\ thing = Blank
  /\ fn = NoMapFunction

InitMap ==
  /\ api \in {"Ok", "Err"}
  /\ thing \in Things
  /\ fn \in MapFunctions
  /\ happyPath = NoFunction
  /\ sadPath = Outcome("none", Blank)
  /\ someFunction = NoFunction

Init == (InitTry \/ InitOptionOf \/ InitMap) /\ Fresh

Next ==
  \/ Try
  \/ Settle
  \/ OnFulfilled
  \/ SettleBody
  \/ OnBody
  \/ OnRejected
  \/ OptionOf
  \/ OptionOnFulfilled
  \/ OptionOnRejected
  \/ Construct
  \/ Map
  \/ Tick

\* One call of Try or of OptionOf, or one Result built and mapped.
Spec == Init /\ [][Next]_vars

\* The same, with the continuations that are due eventually run.
FairSpec == Spec /\ WF_vars(Next)

InitPair ==
  /\ api = "Try"
  /\ happyPath \in {<<o, o>> : o \in {Outcome(k, v) : k \in {"return", "throw"},
                                                     v \in Values}}
  /\ sadPath \in SadPaths
  /\ someFunction = NoFunction
  /\ thing = Blank
  /\ fn = NoMapFunction
  /\ Fresh

NextPair ==
  \/ Try
  \/ Settle
  \/ OnFulfilled
  \/ SettleBody
  \/ OnBody
  \/ OnRejected
  \/ Tick
  \/ TryAsync

\* Two calls of Try in a row: a synchronous happyPath, then its asynchronous twin.
SpecPair == InitPair /\ [][NextPair]_vars

----------------------------------------------------------------------------
(* Vocabulary of the properties *)

\* The call has run to its end: no continuation of it is left to run.
Done == pc = "done"

\* happyPath does the same thing every time it is invoked: () => v,
\* () => { throw e }, () => Promise.resolve(v), () => Promise.reject(e).
SameEveryTime == happyPath[1] = happyPath[2]

\* happyPath fails whenever it is invoked: it throws, or its promise rejects.
HappyFails ==
  \/ happyPath[1].kind = "reject"
  \/ happyPath[1].kind = "throw" /\ happyPath[2].kind = "throw"

\* happyPath succeeds whenever it is invoked: it returns, or its promise fulfils.
HappySucceeds ==
  \/ happyPath[1].kind = "fulfil"
  \/ happyPath[1].kind = "return" /\ happyPath[2].kind = "return"

\* r is an Err(e), built at whatever time.
IsErrOf(r, e) == \E t \in 0..MaxClock : r = ErrAt(e, t)

\* r is a Result: tagged Ok or Err, exactly one of isOk and isError true.
IsResult(r) ==
  /\ OK(r) \/ ERROR(r)
  /\ (r.isOk = "true") # (r.isError = "true")

\* A promise with the creation time of its value left out.
Untimed(p) ==
  IF p.value = <<>> THEN p
  ELSE [p EXCEPT !.value = <<[p.value[1] EXCEPT !.timestamp = <<>>]>>]

\* The response happyPath's promise fulfilled with had its body extracted as b.
BodyIs(b) ==
  /\ happyPath[1].kind = "fulfil"
  /\ FetchResponsePattern(happyPath[1].val)
  /\ happyPath[1].val.json # <<>>
  /\ happyPath[1].val.json[1].kind \in {"return", "fulfil"}
  /\ happyPath[1].val.json[1].val = b

----------------------------------------------------------------------------
(* Properties *)

\* C1: whenever happyPath throws synchronously or returns a promise that
\* rejects, with any sadPath or none, the promise Try returns is never
\* rejected and, once the call has run to its end, is fulfilled.
C1_FailureAlwaysFulfils ==
  (api = "Try" /\ HappyFails) =>
     /\ promise.state # "rejected"
     /\ Done => promise.state = "fulfilled"

\* C2: whenever happyPath returns normally or its promise fulfils (a fetch-like
\* response included, whatever its body extraction does), the promise Try
\* returns is never rejected and, once the call has run to its end, is fulfilled.
C2_SuccessAlwaysFulfils ==
  (api = "Try" /\ HappySucceeds) =>
     /\ promise.state # "rejected"
     /\ Done => promise.state = "fulfilled"

\* C3: in every call of Try and of OptionOf the wrapped function is invoked
\* exactly once: never more than once, and once when the call has run to its end.
C3_InvokedExactlyOnce ==
  /\ calls <= 1
  /\ Done => calls = 1

\* C4: idempotence: for an Ok-tagged or Err-tagged v, Try(() => v) and
\* Try(() => Promise.resolve(v)) both resolve to v itself.
C4_TaggedPassThrough ==
  ( /\ api = "Try" /\ Done /\ SameEveryTime
    /\ happyPath[1].kind \in {"return", "fulfil"}
    /\ OK(happyPath[1].val) \/ ERROR(happyPath[1].val) )
  => promise = Fulfilled(happyPath[1].val)

\* C5: whatever happyPath does and whatever sadPath returns, the value Try's
\* promise is fulfilled with is a Result: Ok-tagged or Err-tagged, with exactly
\* one of isOk and isError true.
C5_FulfilsWithResult ==
  (api = "Try" /\ promise.state = "fulfilled") => IsResult(promise.value[1])

\* C6: with the same sadPath (one that returns), Try(() => v) for a v that is
\* no fetch-like response resolves to the same Result as
\* Try(() => Promise.resolve(v)), and Try(() => { throw e }) to the same
\* Result as Try(() => Promise.reject(e)).
C6_SyncAsyncEquivalent ==
  ( /\ earlier # <<>> /\ Done
    /\ sadPath.kind # "throw"
    /\ happyPath[1].kind = "fulfil" => ~FetchResponsePattern(happyPath[1].val) )
  => Untimed(promise) = Untimed(earlier[1])

\* C7: a supplied sadPath (one that returns) takes priority over Err(...): for
\* every x that is not Err-tagged and is thrown by happyPath, or is what its
\* promise rejects with, or is a fetch response body matching the JSON-RPC
\* error envelope, Try resolves to what sadPath returned.
C7_SadPathPriority ==
  ( /\ api = "Try" /\ Done /\ sadPath.kind = "return"
    /\ \/ /\ happyPath[1].kind = "throw" /\ SameEveryTime
          /\ ~ERROR(happyPath[1].val)
       \/ /\ happyPath[1].kind = "reject"
          /\ ~ERROR(happyPath[1].val)
       \/ \E b \in Bodies :
            BodyIs(b) /\ JsonRpcErrorPattern(b) /\ ~ERROR(b) )
  => promise = Fulfilled(sadPath.val)

\* C8: sadPath is never invoked with an argument that is already Err-tagged.
C8_SadPathNeverGetsErr ==
  \A i \in 1..Len(sadArgs) : ~ERROR(sadArgs[i])

\* C9: fetch-response classification: when happyPath's promise fulfils with a
\* fetch-like response whose body extraction yields b, Try resolves to Ok(b)
\* if b matches the JSON-RPC success envelope; otherwise, if b matches the
\* error envelope, to what sadPath returns when sadPath is supplied and to
\* Err(b) when it is not; otherwise to Ok(b).
C9_FetchClassification ==
  \A b \in Bodies :
    (api = "Try" /\ Done /\ BodyIs(b)) =>
      IF JsonRpcSuccessPattern(b) THEN promise = Fulfilled(Ok(b))
      ELSE IF JsonRpcErrorPattern(b)
        THEN /\ sadPath.kind = "return" => promise = Fulfilled(sadPath.val)
             /\ sadPath.kind = "none" =>
                  /\ promise.state = "fulfilled"
                  /\ IsErrOf(promise.value[1], b)
      ELSE promise = Fulfilled(Ok(b))

\* C9 witness: a response body matching only the error envelope went to the
\* supplied sadPath, and Try resolved to what it returned.
C9_Witness ==
  /\ api = "Try" /\ Done
  /\ BodyIs(RpcError)
  /\ sadPath.kind = "return"
  /\ sadArgs = <<RpcError>>
  /\ promise = Fulfilled(sadPath.val)

\* C10: for an error e that matches the JSON-RPC error envelope and is not
\* Err-tagged, Try(() => { throw e }) resolves to Err(e) when no sadPath is
\* supplied and to what sadPath(e) returns when one is.
C10_ThrownEnvelope ==
  ( /\ api = "Try" /\ Done
    /\ happyPath[1].kind = "throw" /\ SameEveryTime
    /\ JsonRpcErrorPattern(happyPath[1].val)
    /\ ~ERROR(happyPath[1].val) )
  => /\ sadPath.kind = "return" => promise = Fulfilled(sadPath.val)
     /\ sadPath.kind = "none" =>
          /\ promise.state = "fulfilled"
          /\ IsErrOf(promise.value[1], happyPath[1].val)

\* C10 witness: the thrown envelope was wrapped by Err, no sadPath being there.
C10_Witness ==
  /\ api = "Try" /\ Done
  /\ happyPath = <<Outcome("throw", RpcError), Outcome("throw", RpcError)>>
  /\ sadPath.kind = "none"
  /\ promise.state = "fulfilled"
  /\ IsErrOf(promise.value[1], RpcError)

----------------------------------------------------------------------------
(* OptionOf: vocabulary and properties *)

\* someFunction does the same thing every time it is invoked.
FnSameEveryTime == someFunction[1] = someFunction[2]

\* someFunction fails whenever it is invoked: it throws, or its promise rejects.
FnFails ==
  \/ someFunction[1].kind = "reject"
  \/ someFunction[1].kind = "throw" /\ someFunction[2].kind = "throw"

\* OptionOf(() => v) or OptionOf(() => Promise.resolve(v)) was called.
FnYields(v) ==
  /\ api = "OptionOf" /\ FnSameEveryTime
  /\ someFunction[1].kind \in {"return", "fulfil"}
  /\ someFunction[1].val = v

\* o is an Option: the empty one, or a present one.
IsOption(o) == MatchesNOTHING(o) \/ SOMETHING(o)

\* C11: OptionOf never propagates an error: whatever someFunction does, the
\* promise is never rejected and, once the call has run to its end, is
\* fulfilled with an Option; when someFunction fails (throws, or its promise
\* rejects) that Option is the empty one.
C11_OptionOfNeverFails ==
  api = "OptionOf" =>
    /\ promise.state # "rejected"
    /\ Done => /\ promise.state = "fulfilled"
               /\ IsOption(promise.value[1])
    /\ (Done /\ FnFails) => promise = Fulfilled(NOTHING)

\* C11 witness: someFunction's promise rejected and OptionOf resolved to empty.
C11_Witness ==
  /\ api = "OptionOf" /\ Done
  /\ someFunction[1] = Outcome("reject", Str)
  /\ promise = Fulfilled(NOTHING)

\* The four kinds of empty value: nullish, an array of length zero, the empty
\* string, a value of the empty option's shape.
IsEmptyValue(v) ==
  \/ v.typ \in {"null", "undefined"}
  \/ v.typ = "array" /\ v.len = 0
  \/ v.typ = "string" /\ v.lit = ""
  \/ MatchesNOTHING(v)

\* C12: option emptiness: OptionOf resolves to the empty option exactly when
\* the (awaited) value of someFunction is null, undefined, an array of length
\* zero, the empty string or of the empty option's shape; every other value
\* that is not a present option already (0 and false among them) resolves to a
\* present option whose data is that value.
C12_OptionEmptiness ==
  \A v \in OptionValues :
    (FnYields(v) /\ Done) =>
      /\ promise = Fulfilled(NOTHING) <=> IsEmptyValue(v)
      /\ (~IsEmptyValue(v) /\ ~SOMETHING(v)) => promise = Fulfilled(some(v))

\* C12 witness: OptionOf(() => 0) resolved to a present option holding 0.
C12_Witness ==
  /\ FnYields(Prim("number", "0")) /\ Done
  /\ promise = Fulfilled(some(Prim("number", "0")))

\* C13 as stated: a value with isSome: true and a data field is resolved to
\* as it is, not wrapped in another present option.
C13_SomePassThroughAsStated ==
  \A v \in OptionValues :
    ( /\ FnYields(v) /\ Done
      /\ v.typ = "object" /\ v.isSome = "true" /\ v.data # <<>> )
      => promise = Fulfilled(v)

\* C13 (amended): a value that has isSome: true, isNone: false and a data
\* field, and is not an empty array, is resolved to as it is, not wrapped in
\* another present option, whether someFunction returns it or a promise of it.
C13_SomePassThrough ==
  \A v \in OptionValues :
    ( /\ FnYields(v) /\ Done
      /\ SOMETHING(v)
      /\ ~(v.typ = "array" /\ v.len = 0) )
      => promise = Fulfilled(v)

\* C13 witness: a promise of some(42) made OptionOf resolve to that some(42).
C13_Witness ==
  /\ FnYields(some(Num)) /\ Done
  /\ someFunction[1].kind = "fulfil"
  /\ promise = Fulfilled(some(Num))

\* C16: as the documentation of OptionOf says, wrapping a value that is null,
\* undefined, an empty array or an empty object (an object with no keys) in
\* OptionOf resolves to the empty option.
C16_EmptyObjectIsEmpty ==
  \A v \in {Null, Undef, Arr(0), EmptyObject} :
    (FnYields(v) /\ Done) => promise = Fulfilled(NOTHING)

----------------------------------------------------------------------------
(* Try: further properties *)

\* C19: Tier A failure classification, in priority order: when happyPath's
\* promise rejects with e, Try resolves to Err(e) if e matches the JSON-RPC
\* error envelope (sadPath supplied or not, e Err-tagged or not, and sadPath is
\* not invoked); otherwise to e itself if e is Err-tagged; otherwise to what
\* sadPath returns if sadPath is supplied, else to Err(e).
C19_RejectionClassification ==
  (api = "Try" /\ Done /\ happyPath[1].kind = "reject") =>
    LET e == happyPath[1].val
    IN  IF JsonRpcErrorPattern(e)
          THEN /\ promise.state = "fulfilled"
               /\ IsErrOf(promise.value[1], e)
               /\ sadArgs = <<>>
        ELSE IF ERROR(e) THEN promise = Fulfilled(e) /\ sadArgs = <<>>
        ELSE /\ sadPath.kind = "return" => promise = Fulfilled(sadPath.val)
             /\ sadPath.kind = "none" =>
                  /\ promise.state = "fulfilled"
                  /\ IsErrOf(promise.value[1], e)

\* C19 witness: an Err-tagged envelope was rejected with, a sadPath was there,
\* and Try resolved to Err of the envelope without invoking sadPath.
C19_Witness ==
  /\ api = "Try" /\ Done
  /\ happyPath[1] = Outcome("reject", RpcErrorTagged)
  /\ sadPath.kind = "return"
  /\ sadArgs = <<>>
  /\ promise.state = "fulfilled"
  /\ IsErrOf(promise.value[1], RpcErrorTagged)

\* C14: for every Err(x) and every function f, Err(x).map(f) returns the
\* Err it was called on, not a new object: same data, same timestamp, still
\* tagged Err; and f is never invoked.
C14_ErrMapAbsorbs ==
  (api = "Err" /\ Done) =>
    /\ mapped[1].out = Outcome("return", self[1])
    /\ ~mapped[1].fresh
    /\ mapped[1].out.val.data = <<thing>>
    /\ mapped[1].out.val.timestamp = self[1].timestamp
    /\ ERROR(mapped[1].out.val) /\ ~OK(mapped[1].out.val)
    /\ IsErrOf(self[1], thing)
    /\ fnArgs = <<>>

\* An Err built at time 1 and mapped at time 2 with a function that would
\* throw if it were invoked.
C14_Witness ==
  /\ api = "Err" /\ Done /\ now = 2 /\ fn.kind = "throw"
  /\ self[1].timestamp = <<1>> /\ mapped[1].out.val = self[1]

\* C15: for every x and every function f, Ok(x).map(f) invokes f exactly once,
\* on x; when f returns, map returns a new Ok whose data is f(x) (when f
\* throws there is no f(x), and map throws what f threw); Ok(x) itself is
\* left as it was.
C15_OkMapTransforms ==
  (api = "Ok" /\ Done) =>
    /\ fnArgs = <<thing>>
    /\ Apply(fn, thing).kind = "return" =>
          /\ mapped[1].out = Outcome("return", Ok(Apply(fn, thing).val))
          /\ mapped[1].fresh
          /\ OK(mapped[1].out.val) /\ ~ERROR(mapped[1].out.val)
    /\ Apply(fn, thing).kind = "throw" => mapped[1].out = Apply(fn, thing)
    /\ self[1] = Ok(thing)

\* Ok(x) mapped with a function that returns something other than x.
C15_Witness ==
  /\ api = "Ok" /\ Done /\ fn = Outcome("return", Str) /\ thing = Num
  /\ mapped[1].out.val.data = <<Str>> /\ self[1].data = <<Num>>

\* The events of the log before its i-th.
Before(i) == {log[j] : j \in 1..(i - 1)}

\* C17: in every execution of Try, no classification, no invocation of
\* sadPath and no fulfilment of Try's promise comes before the wrapped
\* computation has completed: before happyPath has returned or thrown or, when
\* it handed back a promise, before that promise has settled. On the fetch
\* path the body is classified, and Try's promise fulfilled, only after the
\* extraction of the body has settled.
C17_Ordering ==
  api = "Try" =>
    \A i \in 1..Len(log) :
      /\ log[i] \in {"match", "matchBody", "sadPath", "fulfilled"} =>
            /\ Before(i) \cap {"returned", "threw", "settled"} # {}
            /\ "promise" \in Before(i) /\ ~tierB => "settled" \in Before(i)
      /\ (log[i] \in {"matchBody", "fulfilled"} \/
            (log[i] = "sadPath" /\ "matchBody" \in Before(i))) =>
            ("json" \in Before(i) => "jsonSettled" \in Before(i))
      /\ log[i] = "matchBody" => "json" \in Before(i)

\* A fetch response whose body is an error envelope, sadPath given: the body
\* is classified, sadPath invoked and Try's promise fulfilled, all after the
\* response had arrived and its body had been extracted.
C17_Witness ==
  /\ api = "Try" /\ Done
  /\ log = <<"happyPath", "promise", "settled", "match", "json", "jsonSettled",
             "matchBody", "sadPath", "fulfilled">>

\* v has the shape of a fetch response and is tagged Ok as well.
ResponseAndOk(v) == FetchResponsePattern(v) /\ OK(v)

\* C18: the first matching rule wins, and the two tiers order their rules
\* differently. A value that matches the response shape and the pattern OK,
\* when happyPath's promise fulfils with it, is handled as a response: its
\* body is extracted and classified and the value itself is not what Try
\* fulfils with. The same value returned synchronously is what Try fulfils
\* with, unchanged, and no body is extracted.
C18_TierPriority ==
  (api = "Try" /\ Done) =>
    /\ (happyPath[1].kind = "fulfil" /\ ResponseAndOk(happyPath[1].val)) =>
          LET extraction == happyPath[1].val.json[1]
          IN  /\ happyPath[1].val.json # <<>> =>
                    /\ "json" \in Before(Len(log) + 1)
                    /\ extraction.kind \in {"return", "fulfil"} =>
                          /\ "matchBody" \in Before(Len(log) + 1)
                          /\ ClassifyBody(extraction.val).kind = "value" =>
                                Untimed(promise) =
                                  Untimed(Fulfilled(ClassifyBody(extraction.val).val))
              /\ promise # Fulfilled(happyPath[1].val)
    /\ (tierB /\ happyPath[2].kind = "return"
           /\ ResponseAndOk(happyPath[2].val)) =>
          /\ promise = Fulfilled(happyPath[2].val)
          /\ "json" \notin Before(Len(log) + 1)

\* The tagged response has been delivered as a fulfilment and Try has
\* fulfilled with its classified body.
C18_Witness ==
  /\ api = "Try" /\ Done /\ happyPath[1] = Outcome("fulfil", OkResponse)
  /\ promise = Fulfilled(Ok(RpcSuccess))

\* The tagged response has been returned synchronously and Try has fulfilled
\* with it.
C18_WitnessSync ==
  /\ api = "Try" /\ Done /\ SameEveryTime
  /\ happyPath[1] = Outcome("return", OkResponse)
  /\ promise = Fulfilled(OkResponse)

\* The number of invocations of happyPath in the log.
Invocations == Cardinality({i \in 1..Len(log) : log[i] = "happyPath"})

\* C20: when happyPath returns a promise it is invoked exactly once and the
\* synchronous fallback is never entered, whether the promise fulfils or
\* rejects; the fallback runs only if the first attempt (the call, or the
\* attachment of the continuations) threw synchronously.
C20_PromiseInvokedOnce ==
  (api = "Try" /\ pc # "start") =>
    /\ happyPath[1].kind \in {"fulfil", "reject"} =>
          calls = 1 /\ Invocations = 1 /\ ~tierB
    /\ tierB => happyPath[1].kind \in {"return", "throw"}

\* A promise-returning happyPath whose promise rejected, the call at its end.
C20_Witness ==
  /\ api = "Try" /\ Done /\ happyPath[1].kind = "reject"
  /\ calls = 1 /\ ~tierB /\ "settled" \in Before(Len(log) + 1)

\* The positions of the log at which sadPath was invoked.
SadPathCalls == {i \in 1..Len(log) : log[i] = "sadPath"}

\* happyPath's promise fulfilled with a fetch-like response.
FetchPath ==
  happyPath[1].kind = "fulfil" /\ FetchResponsePattern(happyPath[1].val)

\* C21: in every execution of Try sadPath is invoked at most once, and only
\* after happyPath has failed (it threw, or its promise rejected) or after the
\* body of a fetch response matched the JSON-RPC error envelope; it is never
\* invoked when happyPath succeeds with a value that is not a fetch-like
\* response.
C21_SadPathAtMostOnce ==
  api = "Try" =>
    /\ Cardinality(SadPathCalls) <= 1
    /\ Len(sadArgs) = Cardinality(SadPathCalls)
    /\ \A i \in SadPathCalls :
          \/ /\ tierB /\ happyPath[2].kind = "throw"
             /\ "threw" \in Before(i)
             /\ sadArgs = <<happyPath[2].val>>
          \/ /\ ~tierB /\ happyPath[1].kind = "reject"
             /\ "settled" \in Before(i)
             /\ sadArgs = <<happyPath[1].val>>
          \/ /\ ~tierB /\ FetchPath
             /\ "matchBody" \in Before(i)
             /\ \E b \in Bodies : BodyIs(b) /\ JsonRpcErrorPattern(b)
                                     /\ sadArgs = <<b>>
    /\ (HappySucceeds /\ ~FetchPath) => SadPathCalls = {} /\ sadArgs = <<>>

\* A rejection that is neither an envelope nor Err-tagged has been handed to
\* sadPath, once.
C21_Witness ==
  /\ api = "Try" /\ Done /\ happyPath[1] = Outcome("reject", Str)
  /\ sadArgs = <<Str>> /\ Cardinality(SadPathCalls) = 1

\* C22: when no sadPath is supplied and every invocation of happyPath fails
\* with e (it throws e, or its promise rejects with e), Try resolves to an
\* Err-tagged value: e itself, which happens only when e is Err-tagged, or
\* Err(e), whose data is e. It never resolves to an Ok-tagged value.
C22_DefaultFailureIsErr ==
  ( /\ api = "Try" /\ Done /\ sadPath.kind = "none"
    /\ happyPath[1].kind \in {"throw", "reject"} /\ SameEveryTime )
  => LET e == happyPath[1].val
     IN  /\ promise.state = "fulfilled"
         /\ ERROR(promise.value[1]) /\ ~OK(promise.value[1])
         /\ promise.value[1].isOk # "true"
         /\ \/ promise.value[1] = e /\ ERROR(e)
            \/ IsErrOf(promise.value[1], e) /\ promise.value[1].data = <<e>>
         /\ ~ERROR(e) => IsErrOf(promise.value[1], e)

\* A plain value thrown on every invocation, no sadPath: Try has resolved to
\* Err of it.
C22_Witness ==
  /\ api = "Try" /\ Done /\ sadPath.kind = "none" /\ SameEveryTime
  /\ happyPath[1] = Outcome("throw", Str) /\ tierB
  /\ IsErrOf(promise.value[1], Str)

\* An Err-tagged value rejected, no sadPath: Try has resolved to it.
C22_WitnessTagged ==
  /\ api = "Try" /\ Done /\ sadPath.kind = "none"
  /\ happyPath[1] = Outcome("reject", ErrV)
  /\ promise = Fulfilled(ErrV)

====
